---- MODULE Spec2Model ----
(***************************************************************************)
(* Model of the LiteLLM backend of wagtail-vector-index                    *)
(* (ai_utils/backends/litellm.py) and of get_base_concrete_model           *)
(* (utils.py).                                                             *)
(*                                                                         *)
(* Python values are encoded as records so that values of different Python *)
(* types can be compared: None, PyStr(s), PyInt(n).  A mapping (dict) is a *)
(* function whose domain is its key set.  The outcome of a call is either  *)
(* Return(v) or Raise(exception name).                                     *)
(***************************************************************************)
EXTENDS Integers, Sequences, FiniteSets, TLC

VARIABLES
    streams,    \* raw shape -> the LiteLLMStreamingAIResponse built from that shape
    log,        \* raw shape -> outcomes of the next()/anext() calls made so far
    mode,       \* protocol the consumer iterates with: "idle", "sync", "async"
    settings,   \* the settings mapping the backend configuration was built from
    config,     \* the backend configuration (LiteLLMBackendConfigMixin fields)
    call,       \* the last backend operation invoked, with its arguments
    provider,   \* the last call made to the provider client, with what it gave back
    result,     \* outcome of the last backend operation
    models      \* the model classes defined so far, in definition order

vars == <<streams, log, mode, settings, config, call, provider, result, models>>

(***************************************************************************)
(* Bounds                                                                  *)
(***************************************************************************)
MaxChunks == 3      \* longest raw chunk sequence of a stream
MaxCalls == 5       \* most next()/anext() calls made on one instance
MaxChoices == 2     \* most choices in a non-streaming provider response
MaxInputs == 2      \* most input strings of one embedding call
MaxModels == 5      \* most model classes defined in one hierarchy
MaxBases == 2       \* most model base classes of one model class

(***************************************************************************)
(* Python values                                                           *)
(***************************************************************************)
None == [None |-> TRUE]
PyStr(s) == [str |-> s]
PyInt(n) == [int |-> n]
EmptyMap == [k \in {} |-> None]

\* Python truthiness, as used by `not content` / `not model_info[...]`
Falsy(v) == v = None \/ v = PyStr("") \/ v = PyInt(0) \/ v = EmptyMap

Return(v) == [kind |-> "return", value |-> v]
Raise(e) == [kind |-> "raise", exc |-> e]

(***************************************************************************)
(* Raw provider streams                                                    *)
(***************************************************************************)
StreamingChoices(i, c) == [index |-> i, delta |-> [content |-> c]]
ModelResponseStream(cs) == [choices |-> cs]

\* Raw chunks: one-choice chunks with every kind of delta content, and
\* two-choice chunks whose first and second choice differ.
RawChunks ==
    { ModelResponseStream(<<StreamingChoices(0, c)>>) :
          c \in {PyStr("a"), PyStr("b"), PyStr(""), None} }
    \cup
    { ModelResponseStream(<<StreamingChoices(1, PyStr("a")), StreamingChoices(0, PyStr(""))>>),
      ModelResponseStream(<<StreamingChoices(0, None), StreamingChoices(1, PyStr("b"))>>) }

RECURSIVE SeqsUpTo(_, _)
SeqsUpTo(S, n) ==
    IF n = 0 THEN { <<>> }
    ELSE LET shorter == SeqsUpTo(S, n - 1)
         IN  shorter \cup { Append(s, x) : s \in { t \in shorter : Len(t) = n - 1 }, x \in S }

\* The two raw streaming shapes litellm hands back for a streaming call.
StreamShapes == {"CustomStreamWrapper", "generator"}

RawStream(shape, chunks) == [type |-> shape, chunks |-> chunks, pos |-> 0]

\* next(raw): both shapes implement the synchronous iterator protocol.
raw_next(raw) ==
    IF raw.pos < Len(raw.chunks)
    THEN [outcome |-> Return(raw.chunks[raw.pos + 1]),
          raw |-> [raw EXCEPT !.pos = @ + 1]]
    ELSE [outcome |-> Raise("StopIteration"), raw |-> raw]

\* raw.__anext__(): only the dedicated stream object implements the
\* asynchronous protocol; a plain generator has no such attribute.
raw_anext(raw) ==
    IF raw.type = "generator"
    THEN [outcome |-> Raise("AttributeError"), raw |-> raw]
    ELSE IF raw.pos < Len(raw.chunks)
    THEN [outcome |-> Return(raw.chunks[raw.pos + 1]),
          raw |-> [raw EXCEPT !.pos = @ + 1]]
    ELSE [outcome |-> Raise("StopAsyncIteration"), raw |-> raw]

(***************************************************************************)
(* LiteLLMStreamingAIResponse                                              *)
(***************************************************************************)
LiteLLMStreamingAIResponse(stream_wrapper) ==
    [type |-> "LiteLLMStreamingAIResponse", stream_wrapper |-> stream_wrapper]

\* _build_chunk ending the stream on an absent delta only (`content is None`)
_build_chunk_none_only(response) ==
    LET index == response.choices[1].index
        content == response.choices[1].delta.content
    IN  IF content = None
        THEN Raise("StopIteration")
        ELSE Return([index |-> index, content |-> content.str])

_build_chunk(response) ==
    LET index == response.choices[1].index
        choice == response.choices[1]
        content == choice.delta.content
    IN  IF Falsy(content)
        THEN Raise("StopIteration")
        ELSE Return([index |-> index, content |-> content.str])

__next__(self) ==
    LET next_response == raw_next(self.stream_wrapper)
        self2 == [self EXCEPT !.stream_wrapper = next_response.raw]
    IN  IF next_response.outcome.kind = "raise"
        THEN [outcome |-> next_response.outcome, self |-> self2]
        ELSE [outcome |-> _build_chunk(next_response.outcome.value), self |-> self2]

\* __anext__ without the try/except: _build_chunk's StopIteration escapes
__anext__unconverted(self) ==
    LET next_response == raw_anext(self.stream_wrapper)
        self2 == [self EXCEPT !.stream_wrapper = next_response.raw]
    IN  IF next_response.outcome.kind = "raise"
        THEN [outcome |-> next_response.outcome, self |-> self2]
        ELSE [outcome |-> _build_chunk(next_response.outcome.value), self |-> self2]

__anext__(self) ==
    LET next_response == raw_anext(self.stream_wrapper)
        self2 == [self EXCEPT !.stream_wrapper = next_response.raw]
        built == _build_chunk(next_response.outcome.value)
    IN  IF next_response.outcome.kind = "raise"
        THEN [outcome |-> next_response.outcome, self |-> self2]
        ELSE IF built = Raise("StopIteration")
        THEN [outcome |-> Raise("StopAsyncIteration"), self |-> self2]
        ELSE [outcome |-> built, self |-> self2]

(***************************************************************************)
(* build_ai_response                                                       *)
(***************************************************************************)
AIResponse(choices) == [type |-> "AIResponse", choices |-> choices]

\* A non-streaming provider response: a sequence of choices, each a mapping
\* with a message whose content is a string or None.
ModelResponse(contents) ==
    [type |-> "ModelResponse",
     choices |-> [i \in 1..Len(contents) |-> [message |-> [content |-> contents[i]]]]]

\* build_ai_response keeping the first choice only
build_ai_response_first_choice(response) ==
    IF response.type = "CustomStreamWrapper" \/ response.type = "generator"
    THEN LiteLLMStreamingAIResponse(response)
    ELSE AIResponse([i \in 1..(IF Len(response.choices) > 0 THEN 1 ELSE 0) |->
                         response.choices[i].message.content])

build_ai_response(response) ==
    IF response.type = "CustomStreamWrapper" \/ response.type = "generator"
    THEN LiteLLMStreamingAIResponse(response)
    ELSE AIResponse([i \in 1..Len(response.choices) |->
                         response.choices[i].message.content])

(***************************************************************************)
(* Backend configuration and call parameters                               *)
(***************************************************************************)
\* All mappings with keys among K; key k takes its values in V[k].
Maps(K, V) == UNION { [S -> UNION { V[k] : k \in K }] : S \in SUBSET K }

ParamKeys == {"temperature", "extra_body"}
ParamValues ==
    [k \in ParamKeys |->
        IF k = "temperature" THEN {PyInt(2), PyInt(9)}
        ELSE {[a |-> PyInt(1)], [b |-> PyInt(2)]}]

\* Parameter mappings: a scalar under "temperature", a nested mapping under
\* "extra_body".
ParamMaps == { m \in Maps(ParamKeys, ParamValues) : \A k \in DOMAIN m : m[k] \in ParamValues[k] }

\* DEFAULT_PARAMETERS an operator can configure: any parameter mapping, or
\* one naming an argument the backend passes to the provider itself.
ConfigurableDefaults == ParamMaps \cup { [stream |-> PyInt(1)] }

\* Per-call keyword overrides (**kwargs).
CallKwargs == { m \in ParamMaps : \A k \in DOMAIN m : m[k] \in {PyInt(9), [b |-> PyInt(2)]} }

\* Settings mappings: DEFAULT_PARAMETERS absent, None, or a mapping.
SettingsDicts ==
    { EmptyMap, [DEFAULT_PARAMETERS |-> None] }
    \cup { [DEFAULT_PARAMETERS |-> d] : d \in ConfigurableDefaults }

\* Keyword arguments given to from_settings.
FromSettingsKwargs == { EmptyMap, [default_parameters |-> [temperature |-> PyInt(9)]] }

\* dict.get(key): None when the key is absent
get(d, key) == IF key \in DOMAIN d THEN d[key] ELSE None

\* dict.setdefault(key, default), as the resulting dict
setdefault(d, key, default) ==
    IF key \in DOMAIN d THEN d
    ELSE [k \in DOMAIN d \cup {key} |-> IF k = key THEN default ELSE d[k]]

\* {**b, **a}: the first mapping wins
merge_first_wins(a, b) ==
    [k \in DOMAIN a \cup DOMAIN b |-> IF k \in DOMAIN a THEN a[k] ELSE b[k]]

\* {**a, **b}
merge(a, b) ==
    [k \in DOMAIN a \cup DOMAIN b |-> IF k \in DOMAIN b THEN b[k] ELSE a[k]]

from_settings(cfg, kwargs) ==
    LET default_parameters0 == get(cfg, "DEFAULT_PARAMETERS")
        default_parameters ==
            IF default_parameters0 = None THEN EmptyMap ELSE default_parameters0
        kwargs2 == setdefault(kwargs, "default_parameters", default_parameters)
    IN  [default_parameters |-> kwargs2["default_parameters"]]

(***************************************************************************)
(* Chat backend                                                            *)
(***************************************************************************)
NoCall == [op |-> "none"]
NoProviderCall == [fn |-> "none"]
NoResult == [kind |-> "none"]

\* Arguments chat/achat pass to the provider by name; a parameter of the
\* same name makes the call itself fail (duplicate keyword argument).
CompletionNamedArgs == {"model", "messages", "stream"}

\* What the provider may hand back for a completion call, whatever the
\* stream flag: a complete response or either raw streaming shape.
RawCompletions ==
    { ModelResponse(cs) : cs \in SeqsUpTo({PyStr("x"), None}, MaxChoices) }
    \cup { RawStream(s, chunks) :
               s \in StreamShapes,
               chunks \in { <<>>, <<ModelResponseStream(<<StreamingChoices(0, PyStr("a"))>>)>> } }

\* chat and achat: fn is litellm.completion resp. litellm.acompletion, raw
\* is what that provider call returns.
chat(self, fn, stream, kwargs, raw) ==
    LET parameters == merge(self.default_parameters, kwargs)
    IN  IF DOMAIN parameters \cap CompletionNamedArgs # {}
        THEN [provider |-> NoProviderCall, outcome |-> Raise("TypeError")]
        ELSE [provider |-> [fn |-> fn, stream |-> stream,
                            parameters |-> parameters, returned |-> raw],
              outcome |-> Return(build_ai_response(raw))]

(***************************************************************************)
(* Initial states                                                          *)
(***************************************************************************)
NoStream == [type |-> "none"]

IdleStreams ==
    /\ streams = [s \in StreamShapes |-> NoStream]
    /\ log = [s \in StreamShapes |-> <<>>]
    /\ mode = "idle"

IdleBackend ==
    /\ call = NoCall
    /\ provider = NoProviderCall
    /\ result = NoResult

NoModels == models = <<>>

Unconfigured ==
    /\ settings = EmptyMap
    /\ config = [default_parameters |-> EmptyMap]

\* The backend configuration has been built from some settings.
Configured ==
    \E s \in SettingsDicts, kw \in FromSettingsKwargs :
        /\ settings = [config |-> s, kwargs |-> kw]
        /\ config = from_settings(s, kw)

(***************************************************************************)
(* Streaming: one streaming response per raw shape over the same chunks,   *)
(* consumed synchronously or asynchronously.                               *)
(***************************************************************************)
InitStream == IdleStreams /\ IdleBackend /\ Unconfigured /\ NoModels

\* A streaming chat call per raw shape: the provider hands back the same
\* chunks as a dedicated stream object and as a generator.
BuildStreams(chunks, m) ==
    /\ mode = "idle"
    /\ streams' = [s \in StreamShapes |-> build_ai_response(RawStream(s, chunks))]
    /\ log' = [s \in StreamShapes |-> <<>>]
    /\ mode' = m
    /\ UNCHANGED <<settings, config, call, provider, result, models>>

Next_(s) ==
    /\ mode = "sync"
    /\ Len(log[s]) < MaxCalls
    /\ LET r == __next__(streams[s])
       IN  /\ streams' = [streams EXCEPT ![s] = r.self]
           /\ log' = [log EXCEPT ![s] = Append(@, r.outcome)]
    /\ UNCHANGED <<mode, settings, config, call, provider, result, models>>

ANext(s) ==
    /\ mode = "async"
    /\ Len(log[s]) < MaxCalls
    /\ LET r == __anext__(streams[s])
       IN  /\ streams' = [streams EXCEPT ![s] = r.self]
           /\ log' = [log EXCEPT ![s] = Append(@, r.outcome)]
    /\ UNCHANGED <<mode, settings, config, call, provider, result, models>>

NextStream ==
    \/ \E chunks \in SeqsUpTo(RawChunks, MaxChunks), m \in {"sync", "async"} :
           BuildStreams(chunks, m)
    \/ \E s \in StreamShapes : Next_(s)
    \/ \E s \in StreamShapes : ANext(s)

SpecStream == InitStream /\ [][NextStream]_vars

(***************************************************************************)
(* Chat calls                                                              *)
(***************************************************************************)
InitChat == IdleStreams /\ IdleBackend /\ Configured /\ NoModels

Chat(stream, kwargs, raw) ==
    /\ LET r == chat(config, "completion", stream, kwargs, raw)
       IN  /\ provider' = r.provider
           /\ result' = r.outcome
    /\ call' = [op |-> "chat", stream |-> stream, kwargs |-> kwargs]
    /\ UNCHANGED <<streams, log, mode, settings, config, models>>

AChat(stream, kwargs, raw) ==
    /\ LET r == chat(config, "acompletion", stream, kwargs, raw)
       IN  /\ provider' = r.provider
           /\ result' = r.outcome
    /\ call' = [op |-> "achat", stream |-> stream, kwargs |-> kwargs]
    /\ UNCHANGED <<streams, log, mode, settings, config, models>>

NextChat ==
    \/ \E stream \in BOOLEAN, kwargs \in CallKwargs, raw \in RawCompletions :
           Chat(stream, kwargs, raw)
    \/ \E stream \in BOOLEAN, kwargs \in CallKwargs, raw \in RawCompletions :
           AChat(stream, kwargs, raw)

SpecChat == InitChat /\ [][NextChat]_vars

(***************************************************************************)
(* Embedding backend                                                       *)
(***************************************************************************)
\* What the provider may hand back for an embedding call over the given
\* inputs: an EmbeddingResponse with any number of entries (entry i holds
\* vector <<i>>), or an object of another type with one entry per input.
RawEmbeddings(inputs) ==
    { [type |-> "EmbeddingResponse", data |-> [i \in 1..n |-> [embedding |-> <<i>>]]] :
          n \in 0..(Len(inputs) + 1) }
    \cup { [type |-> "dict", data |-> [i \in 1..Len(inputs) |-> [embedding |-> <<i>>]]] }

\* embed, consumed to the end: the vectors the generator yields.
embed(self, inputs, kwargs, response) ==
    [provider |-> [fn |-> "embedding", input |-> inputs,
                   parameters |-> kwargs, returned |-> response],
     outcome |->
        IF response.type # "EmbeddingResponse"
        THEN Raise("AssertionError")
        ELSE Return([i \in 1..Len(response.data) |-> response.data[i].embedding])]

aembed(self, inputs, kwargs, response) ==
    [provider |-> [fn |-> "aembedding", input |-> inputs,
                   parameters |-> kwargs, returned |-> response],
     outcome |-> Return([i \in 1..Len(response.data) |-> response.data[i].embedding])]

InitEmbed == IdleStreams /\ IdleBackend /\ Configured /\ NoModels

Embed(inputs, kwargs, response) ==
    /\ LET r == embed(config, inputs, kwargs, response)
       IN  /\ provider' = r.provider
           /\ result' = r.outcome
    /\ call' = [op |-> "embed", inputs |-> inputs, kwargs |-> kwargs]
    /\ UNCHANGED <<streams, log, mode, settings, config, models>>

AEmbed(inputs, kwargs, response) ==
    /\ LET r == aembed(config, inputs, kwargs, response)
       IN  /\ provider' = r.provider
           /\ result' = r.outcome
    /\ call' = [op |-> "aembed", inputs |-> inputs, kwargs |-> kwargs]
    /\ UNCHANGED <<streams, log, mode, settings, config, models>>

NextEmbed ==
    \/ \E inputs \in SeqsUpTo({"p", "q"}, MaxInputs), kwargs \in CallKwargs :
           \E response \in RawEmbeddings(inputs) : Embed(inputs, kwargs, response)
    \/ \E inputs \in SeqsUpTo({"p", "q"}, MaxInputs), kwargs \in CallKwargs :
           \E response \in RawEmbeddings(inputs) : AEmbed(inputs, kwargs, response)

SpecEmbed == InitEmbed /\ [][NextEmbed]_vars

(***************************************************************************)
(* Provider-based resolution of numeric limits                             *)
(***************************************************************************)
ModelInfoFields == {"max_input_tokens", "output_vector_size"}

\* What get_model_info may return: None, or a mapping holding any of the
\* two fields with None, zero or a positive number.
ModelInfos ==
    { None }
    \cup UNION { [S -> {None, PyInt(0), PyInt(8), PyInt(16)}] : S \in SUBSET ModelInfoFields }

\* _get_token_limit without the test of the value itself
_get_token_limit_unchecked(model_info) ==
    IF \/ Falsy(model_info)
       \/ "max_input_tokens" \notin DOMAIN model_info
    THEN Raise("ImproperlyConfigured")
    ELSE Return(model_info["max_input_tokens"])

_get_token_limit(model_info) ==
    IF \/ Falsy(model_info)
       \/ "max_input_tokens" \notin DOMAIN model_info
       \/ Falsy(model_info["max_input_tokens"])
    THEN Raise("ImproperlyConfigured")
    ELSE Return(model_info["max_input_tokens"])

_get_embedding_output_dimensions(model_info) ==
    IF \/ Falsy(model_info)
       \/ "output_vector_size" \notin DOMAIN model_info
       \/ Falsy(model_info["output_vector_size"])
    THEN Raise("ImproperlyConfigured")
    ELSE Return(model_info["output_vector_size"])

InitConfig == IdleStreams /\ IdleBackend /\ Unconfigured /\ NoModels

GetTokenLimit(model_id, model_info) ==
    /\ call' = [op |-> "_get_token_limit", model_id |-> model_id]
    /\ provider' = [fn |-> "get_model_info", model |-> model_id, returned |-> model_info]
    /\ result' = _get_token_limit(model_info)
    /\ UNCHANGED <<streams, log, mode, settings, config, models>>

GetEmbeddingOutputDimensions(model_id, model_info) ==
    /\ call' = [op |-> "_get_embedding_output_dimensions", model_id |-> model_id]
    /\ provider' = [fn |-> "get_model_info", model |-> model_id, returned |-> model_info]
    /\ result' = _get_embedding_output_dimensions(model_info)
    /\ UNCHANGED <<streams, log, mode, settings, config, models>>

NextConfig ==
    \/ \E model_id \in {"demo-model", "other-model"}, model_info \in ModelInfos :
           GetTokenLimit(model_id, model_info)
    \/ \E model_id \in {"demo-model", "other-model"}, model_info \in ModelInfos :
           GetEmbeddingOutputDimensions(model_id, model_info)

SpecConfig == InitConfig /\ [][NextConfig]_vars

(***************************************************************************)
(* get_base_concrete_model                                                 *)
(*                                                                         *)
(* A model class is identified by its position in `models`; it records     *)
(* whether it is abstract and its model base classes in declaration order. *)
(***************************************************************************)
RECURSIVE AddAll(_, _)
\* OrderedSet: add the items in order, keeping the first position of each.
AddAll(seq, items) ==
    IF items = <<>> THEN seq
    ELSE AddAll(IF \E i \in 1..Len(seq) : seq[i] = Head(items)
                THEN seq ELSE Append(seq, Head(items)),
                Tail(items))

Range(seq) == { seq[i] : i \in 1..Len(seq) }

RECURSIVE c3_merge(_)
\* The merge step of Python's method resolution order; 0 marks a conflict.
c3_merge(seqs) ==
    LET ne == SelectSeq(seqs, LAMBDA s : s # <<>>)
        InTail(x, s) == \E i \in 2..Len(s) : s[i] = x
        cands == { i \in 1..Len(ne) : \A j \in 1..Len(ne) : ~InTail(ne[i][1], ne[j]) }
    IN  IF ne = <<>> THEN <<>>
        ELSE IF cands = {} THEN <<0>>
        ELSE LET i == CHOOSE k \in cands : \A l \in cands : k <= l
                 h == ne[i][1]
             IN  <<h>> \o c3_merge([j \in 1..Len(ne) |->
                                       IF ne[j][1] = h THEN Tail(ne[j]) ELSE ne[j]])

RECURSIVE mro(_, _)
\* The method resolution order of the class with the given bases.
mro(ms, bases) ==
    c3_merge([i \in 1..(Len(bases) + 1) |->
                 IF i <= Len(bases) THEN <<bases[i]>> \o mro(ms, ms[bases[i]].bases)
                 ELSE bases])

RECURSIVE parents(_, _)
\* Options.parents of a class with the given bases: its concrete bases, and
\* the concrete parents handed down by its abstract bases.
parents(ms, bases) ==
    IF bases = <<>> THEN <<>>
    ELSE LET base == Head(bases)
             own == IF ms[base].abstract THEN parents(ms, ms[base].bases) ELSE <<base>>
         IN  AddAll(own, parents(ms, Tail(bases)))

RECURSIVE get_parent_list(_, _)
RECURSIVE ancestors_of_each(_, _)
\* Options.get_parent_list: the parents, then each parent's own parent list.
get_parent_list(ms, model_class) ==
    LET ps == parents(ms, ms[model_class].bases)
    IN  AddAll(ps, ancestors_of_each(ms, ps))

ancestors_of_each(ms, ps) ==
    IF ps = <<>> THEN <<>>
    ELSE get_parent_list(ms, Head(ps)) \o ancestors_of_each(ms, Tail(ps))

get_base_concrete_model(ms, model_class) ==
    LET parent_list == get_parent_list(ms, model_class)
    IN  IF parent_list # <<>> THEN parent_list[Len(parent_list)] ELSE model_class

\* A class derives from distinct, already defined classes, none of them an
\* ancestor of another one, that admit a method resolution order.
LegalBases(ms, bs) ==
    /\ Range(bs) \subseteq 1..Len(ms)
    /\ \A i, j \in 1..Len(bs) : i # j => bs[i] # bs[j]
    /\ \A i, j \in 1..Len(bs) : bs[i] \notin Range(mro(ms, ms[bs[j]].bases))
    /\ 0 \notin Range(mro(ms, bs))

InitModels == IdleStreams /\ IdleBackend /\ Unconfigured /\ NoModels

\* A class statement: class <new>(bases...), abstract or stored.
DefineModel(bases, abstract) ==
    /\ Len(models) < MaxModels
    /\ LegalBases(models, bases)
    /\ models' = Append(models, [abstract |-> abstract, bases |-> bases])
    /\ call' = NoCall
    /\ result' = NoResult
    /\ UNCHANGED <<streams, log, mode, settings, config, provider>>

GetBaseConcreteModel(model_class) ==
    /\ ~models[model_class].abstract
    /\ call' = [op |-> "get_base_concrete_model", model_class |-> model_class]
    /\ result' = Return(get_base_concrete_model(models, model_class))
    /\ UNCHANGED <<streams, log, mode, settings, config, provider, models>>

NextModels ==
    \/ \E bases \in SeqsUpTo(1..MaxModels, MaxBases), abstract \in BOOLEAN :
           DefineModel(bases, abstract)
    \/ \E model_class \in 1..Len(models) : GetBaseConcreteModel(model_class)

SpecModels == InitModels /\ [][NextModels]_vars

(***************************************************************************)
(* Properties                                                              *)
(***************************************************************************)
IsPrefix(a, b) == Len(a) <= Len(b) /\ \A i \in 1..Len(a) : a[i] = b[i]

Terminated(l) == \E i \in 1..Len(l) : l[i].kind = "raise"

\* Position of the first call that ended the iteration
FirstEnd(l) == CHOOSE i \in 1..Len(l) : l[i].kind = "raise" /\ \A j \in 1..(i - 1) : l[j].kind = "return"

RECURSIVE PartsBeforeEnd(_)
\* What an iteration construct collects: the parts returned before the first end
PartsBeforeEnd(l) ==
    IF l = <<>> \/ Head(l).kind = "raise" THEN <<>>
    ELSE <<Head(l).value>> \o PartsBeforeEnd(Tail(l))

EmptyDelta(chunk) == chunk.choices[1].delta.content \in {None, PyStr("")}

RECURSIVE PartsUntilEmptyDelta(_)
\* One part per raw chunk that precedes the first chunk with an empty or absent delta
PartsUntilEmptyDelta(chunks) ==
    IF chunks = <<>> \/ EmptyDelta(Head(chunks)) THEN <<>>
    ELSE <<[index |-> Head(chunks).choices[1].index,
            content |-> Head(chunks).choices[1].delta.content.str]>>
         \o PartsUntilEmptyDelta(Tail(chunks))

ChunksOf(s) == streams[s].stream_wrapper.chunks

IsChatCall == call.op \in {"chat", "achat"} /\ provider.fn # "none"

IsEmbedCall == call.op \in {"embed", "aembed"} /\ provider.fn # "none"

\* The shallow merge of defaults d and overrides o, stated key by key
IsShallowMerge(p, d, o) ==
    /\ DOMAIN p = DOMAIN d \cup DOMAIN o
    /\ \A k \in DOMAIN o : p[k] = o[k]
    /\ \A k \in DOMAIN d \ DOMAIN o : p[k] = d[k]

\* C1: the parameters every chat and achat call passes to the provider's
\* completion call are exactly the shallow merge of the configured
\* default_parameters and the per-call overrides, override keys winning.
C1_ChatParametersAreShallowMerge ==
    IsChatCall =>
        /\ IsShallowMerge(provider.parameters, config.default_parameters, call.kwargs)
        /\ provider.fn = (IF call.op = "chat" THEN "completion" ELSE "acompletion")
        /\ provider.stream = call.stream

C1_Witness ==
    /\ IsChatCall
    /\ config.default_parameters = [temperature |-> PyInt(2), extra_body |-> [a |-> PyInt(1)]]
    /\ call.kwargs = [temperature |-> PyInt(9)]
    /\ provider.parameters = [temperature |-> PyInt(9), extra_body |-> [a |-> PyInt(1)]]

\* C2: synchronous iteration yields, in order, one part {index, content}
\* from the first choice of each raw chunk that precedes the first chunk
\* with an empty or absent delta, and then ends with the synchronous
\* end-of-sequence (at that chunk, or at exhaustion when there is none).
C2_SyncYieldsUntilEmptyDelta ==
    mode = "sync" =>
        \A s \in StreamShapes :
            /\ IsPrefix(PartsBeforeEnd(log[s]), PartsUntilEmptyDelta(ChunksOf(s)))
            /\ Terminated(log[s]) =>
                   /\ PartsBeforeEnd(log[s]) = PartsUntilEmptyDelta(ChunksOf(s))
                   /\ log[s][FirstEnd(log[s])] = Raise("StopIteration")

C2_Witness ==
    /\ mode = "sync"
    /\ \E s \in StreamShapes :
           /\ Len(ChunksOf(s)) = 3
           /\ EmptyDelta(ChunksOf(s)[2])
           /\ ~EmptyDelta(ChunksOf(s)[3])
           /\ log[s] = <<Return([index |-> 0, content |-> "a"]), Raise("StopIteration")>>

\* C3 (as claimed): asynchronous iteration raises the asynchronous
\* end-of-sequence only when the underlying stream is exhausted, never at
\* an empty or absent delta.
C3_AsyncEndsOnlyAtExhaustion ==
    mode = "async" =>
        \A s \in StreamShapes : \A i \in 1..Len(log[s]) :
            log[s][i] = Raise("StopAsyncIteration") => i > Len(ChunksOf(s))

\* C3 (amended): asynchronous iteration treats an empty or absent delta as
\* end-of-stream, as the synchronous path does: no part is yielded at or
\* after such a chunk before the first end, and over the dedicated stream
\* object the iteration ends with the asynchronous end-of-sequence at that
\* chunk, or at exhaustion when there is none.
C3_AsyncYieldsUntilEmptyDelta ==
    mode = "async" =>
        \A s \in StreamShapes :
            /\ IsPrefix(PartsBeforeEnd(log[s]), PartsUntilEmptyDelta(ChunksOf(s)))
            /\ (s = "CustomStreamWrapper" /\ Terminated(log[s])) =>
                   /\ PartsBeforeEnd(log[s]) = PartsUntilEmptyDelta(ChunksOf(s))
                   /\ log[s][FirstEnd(log[s])] = Raise("StopAsyncIteration")

C3_Witness ==
    /\ mode = "async"
    /\ Len(ChunksOf("CustomStreamWrapper")) = 3
    /\ EmptyDelta(ChunksOf("CustomStreamWrapper")[2])
    /\ ~EmptyDelta(ChunksOf("CustomStreamWrapper")[3])
    /\ log["CustomStreamWrapper"] =
           <<Return([index |-> 0, content |-> "a"]), Raise("StopAsyncIteration")>>

\* C4: an embed or aembed call that completes without error for n inputs
\* returns exactly n vectors; a provider response with another number of
\* entries makes the call fail instead.
C4_ResultLengthEqualsInputs ==
    (IsEmbedCall /\ result.kind = "return") => Len(result.value) = Len(call.inputs)

HasTruthy(model_info, field) ==
    /\ model_info # None
    /\ field \in DOMAIN model_info
    /\ model_info[field] \notin {None, PyInt(0)}

\* C5: _get_token_limit returns the provider metadata's max_input_tokens,
\* and _get_embedding_output_dimensions its output_vector_size, exactly
\* when the provider has metadata and that field is present and truthy;
\* otherwise the resolution fails with ImproperlyConfigured and returns no
\* number.
C5_ProviderLimitNeverDefaulted ==
    /\ call.op = "_get_token_limit" =>
           IF HasTruthy(provider.returned, "max_input_tokens")
           THEN result = Return(provider.returned["max_input_tokens"])
           ELSE result = Raise("ImproperlyConfigured")
    /\ call.op = "_get_embedding_output_dimensions" =>
           IF HasTruthy(provider.returned, "output_vector_size")
           THEN result = Return(provider.returned["output_vector_size"])
           ELSE result = Raise("ImproperlyConfigured")

C5_Witness ==
    /\ call.op = "_get_token_limit"
    /\ provider.returned = [max_input_tokens |-> PyInt(0), output_vector_size |-> PyInt(16)]
    /\ result = Raise("ImproperlyConfigured")

\* The classes a class derives from, directly or not
RECURSIVE Ancestors(_)
Ancestors(c) ==
    Range(models[c].bases) \cup UNION { Ancestors(b) : b \in Range(models[c].bases) }

StoredAncestors(c) == { a \in Ancestors(c) : ~models[a].abstract }

\* C6: get_base_concrete_model returns the most-base stored ancestor of the
\* given type (a stored ancestor that itself has no stored ancestor), or the
\* type itself when it has no stored ancestor, and resolving the result
\* again returns the same type.
C6_ResolvesToIdentityRoot ==
    call.op = "get_base_concrete_model" =>
        LET c == call.model_class
            r == result.value
        IN  /\ IF StoredAncestors(c) = {} THEN r = c ELSE r \in StoredAncestors(c)
            /\ StoredAncestors(r) = {}
            /\ get_base_concrete_model(models, r) = r

\* C7: when the raw provider result is not a streaming shape, chat and
\* achat return an AIResponse holding one candidate per provider choice, in
\* the provider's order, each the choice's message content, whatever the
\* stream flag.
C7_OneCandidatePerChoice ==
    (IsChatCall /\ provider.returned.type \notin StreamShapes) =>
        /\ result.kind = "return"
        /\ result.value.type = "AIResponse"
        /\ Len(result.value.choices) = Len(provider.returned.choices)
        /\ \A i \in 1..Len(provider.returned.choices) :
               result.value.choices[i] = provider.returned.choices[i].message.content

C7_Witness ==
    /\ call.op = "achat"
    /\ call.stream = TRUE
    /\ provider.returned = ModelResponse(<<PyStr("x"), None>>)
    /\ result = Return(AIResponse(<<PyStr("x"), None>>))

\* C8: once the iteration of an instance has signalled its end, every later
\* call on the same instance signals the end too; no part is yielded after
\* the first termination.
C8_NoPartAfterEnd ==
    mode # "idle" =>
        \A s \in StreamShapes : \A i, j \in 1..Len(log[s]) :
            (i < j /\ log[s][i].kind = "raise") => log[s][j].kind = "raise"

\* C9: over the same raw chunks the response built from a dedicated stream
\* object and the one built from a plain generator are both streaming
\* responses and, call for call, give the same parts and the same
\* end-of-sequence signal, synchronously and asynchronously.
C9_ShapesEquivalent ==
    mode # "idle" =>
        /\ \A s \in StreamShapes : streams[s].type = "LiteLLMStreamingAIResponse"
        /\ Len(log["CustomStreamWrapper"]) = Len(log["generator"]) =>
               log["CustomStreamWrapper"] = log["generator"]

\* C10: the parameters every embed and aembed call hands to the provider's
\* embedding call are the configuration's default_parameters merged under
\* the per-call overrides, override keys winning.
C10_EmbedParametersIncludeDefaults ==
    IsEmbedCall =>
        IsShallowMerge(provider.parameters, config.default_parameters, call.kwargs)
====
